---- MODULE Spec2Model ----
(***************************************************************************)
(* A model of the Smart Data Processing Framework: the bounded blocking    *)
(* queue DataQueue<T> (DataQueue.h) and the worker-pool pipeline           *)
(* ProcessingSystem<T> (ProcessingSystem.h).                               *)
(*                                                                         *)
(* Every DataQueue method runs inside one critical section of mutex_, so   *)
(* one critical section is one action.  A condition variable is the set of *)
(* threads blocked on it: wait() puts the caller in the set, notify_one    *)
(* takes one member out, notify_all takes all out, and a thread that is    *)
(* out of the set re-acquires the mutex and re-evaluates its predicate.    *)
(* Time is abstract: a wait_for with a positive timeout may time out at    *)
(* any moment.                                                             *)
(***************************************************************************)
EXTENDS Integers, Sequences, FiniteSets, TLC

\* ------------------------------------------------------------------ bounds
NumClients == 2      \* threads calling the public operations
QueueSize  == 2      \* QueueSpec: capacity given to the queue at construction
MaxItems   == 3      \* QueueSpec: enqueue calls made in one behaviour
NumWorkers == 1      \* Spec: numWorkers given to the pipeline at construction
PipeQueueSize == 1   \* Spec: queueSize given to the pipeline at construction
MaxSubmits == 2      \* Spec: addData calls made in one behaviour
MaxThreads == 2      \* Spec: worker threads that exist at the same time
PoolWorkers == 2     \* PoolSpec: numWorkers given to the pipeline at construction
FlowItems == 3       \* FlowSpec: addData calls made in one behaviour
FlowQueueSize == 3   \* FlowSpec: queueSize given to the pipeline at construction
MaxBatch == 2        \* DrainSpec: the largest count getResults is called with
NumCallers == 3      \* CrowdSpec: threads calling the methods of one queue
CrowdQueueSize == 1  \* CrowdSpec: capacity given to the queue at construction

\* ------------------------------------------------------------ the universe
Clients == 1 .. NumClients
Workers == (NumClients + 1) .. (NumClients + MaxThreads)
Threads == Clients \cup Workers

Queues == {"inputQueue_", "outputQueue_"}

\* The timeoutMs arguments a caller passes: the default -1, zero, positive.
TimeoutArgs == {-1, 0, 500}

NoResult == [op |-> "none", ok |-> FALSE, val |-> 0]
NoReturn == [op |-> "none", ok |-> FALSE, val |-> 0]

VARIABLES
    queue_,       \* [Queues -> Seq(Int)]    std::deque<T> queue_
    shutdown_,    \* [Queues -> BOOLEAN]     bool shutdown_
    notFull_,     \* [Queues -> SUBSET Threads]  threads blocked on notFull_
    notEmpty_,    \* [Queues -> SUBSET Threads]  threads blocked on notEmpty_
    pc,           \* [Threads -> STRING]     where each thread is in its code
    cq,           \* [Threads -> Queues]     the queue of the current call
    item,         \* [Threads -> Int]        the item argument of enqueue
    timeoutMs,    \* [Threads -> Int]        the timeoutMs argument
    result,       \* [Threads -> record]     what the call just made returned
    cont,         \* [Threads -> STRING]     where the queue call returns to
    pushed,       \* [Queues -> Seq(Int)]    history: items push_back'ed
    popped,       \* [Queues -> Seq(Int)]    history: items pop_front'ed by dequeue
    cleared,      \* [Queues -> BOOLEAN]     history: clear() has removed items
    returned,     \* record                  history: the last return to a caller
    nextItem,     \* Int                     history: calls that passed an item
    isRunning_,   \* BOOLEAN                 std::atomic<bool> isRunning_
    workers_,     \* Seq(Workers)            std::vector<std::thread> workers_
    joined,       \* SUBSET Workers          elements of workers_ no longer joinable
    processor_,   \* STRING                  the active strategy, "None" for nullptr
    processorMutex_,  \* 0 or a thread       owner of processorMutex_
    totalProcessed_,  \* Nat                 std::atomic<size_t> totalProcessed_
    totalErrors_,     \* Nat                 std::atomic<size_t> totalErrors_
    idx,          \* [Clients -> Nat]        loop variable of start() / stop()
    terminated,   \* BOOLEAN                 std::terminate() has been called
    maxSize_,     \* [Queues -> Nat]         size_t maxSize_, set by the constructor
    numWorkers_,  \* Nat                     size_t numWorkers_, set by the constructor
    total_,       \* Int                     StatisticalProcessor: T total_
    count_,       \* Nat                     StatisticalProcessor: int count_
    snapshot,     \* [Clients -> Seq]        getStatistics: the fields read so far
    candidates,   \* [Clients -> SUBSET]     history: the states a getStatistics call
                  \*                         has lived through that agree with snapshot
    results,      \* [Clients -> Seq(Int)]   getResults: std::vector<T> results
    iter,         \* [Clients -> Nat]        getResults: the loop variable i
    count         \* [Clients -> Nat]        getResults: the count argument

qvars == <<queue_, shutdown_, notFull_, notEmpty_>>
tvars == <<pc, cq, item, timeoutMs, result, cont>>
hvars == <<pushed, popped, cleared, returned, nextItem>>
pvars == <<isRunning_, workers_, joined, processor_, processorMutex_,
           totalProcessed_, totalErrors_, idx, terminated>>
cvars == <<maxSize_, numWorkers_>>
bvars == <<results, iter, count>>
svars == <<total_, count_, snapshot>>
vars  == <<qvars, tvars, hvars, pvars, cvars, bvars, svars, candidates>>

\* What no DataQueue method touches.
outside == <<nextItem, pvars, cvars, bvars, svars>>

\* ------------------------------------------- history of getStatistics calls

\* The six fields of Statistics for given queue contents, counters, flag and
\* strategy.
StatisticsOf(qs, processed, errors, running, name) ==
    <<Len(qs["inputQueue_"]), Len(qs["outputQueue_"]), processed, errors,
      running, name>>

\* The fields read so far are those of the state tp.
Agrees(read, tp) == \A i \in 1 .. Len(read) : read[i] = tp[i]

\* A getStatistics call of t has been invoked and has not returned.
InStatistics(t) == pc[t] \in {"stat_lock", "stat_read"}

\* The pipeline has moved to a state whose Statistics fields are tp: every
\* getStatistics call in progress has now lived through that state too.
Observe(tp) ==
    candidates' = [t \in Clients |->
                     IF InStatistics(t) /\ Agrees(snapshot[t], tp)
                     THEN candidates[t] \cup {tp}
                     ELSE candidates[t]]

\* After a step of a queue method.
ObserveQueues ==
    Observe(StatisticsOf(queue_', totalProcessed_, totalErrors_, isRunning_,
                         processor_))

\* After a step that wrote isRunning_.
ObserveRunning ==
    Observe(StatisticsOf(queue_, totalProcessed_, totalErrors_, isRunning_',
                         processor_))

\* After a step that wrote totalProcessed_ or totalErrors_.
ObserveCounters ==
    Observe(StatisticsOf(queue_, totalProcessed_', totalErrors_', isRunning_,
                         processor_))

\* After a step that wrote processor_.
ObserveProcessor ==
    Observe(StatisticsOf(queue_, totalProcessed_, totalErrors_, isRunning_,
                         processor_'))

\* --------------------------------------------------------- DataQueue<T>

\* Mutant: the predicate forgets the capacity.
EnqueuePredNoCapacity(q) == ~shutdown_[q]

\* The wait predicate of enqueue.
EnqueuePred(q) == Len(queue_[q]) < maxSize_[q] /\ ~shutdown_[q]

\* Mutant: the predicate forgets the shutdown flag.
DequeuePredNoShutdown(q) == queue_[q] # <<>>

\* The wait predicate of dequeue.
DequeuePred(q) == queue_[q] # <<>> \/ shutdown_[q]

\* notify_one: no waiter, nothing happens; else any one waiter leaves the set.
NotifyOne(waiters) ==
    IF waiters = {} THEN {{}} ELSE {waiters \ {w} : w \in waiters}

\* The thread-local variables of a call are dead once it has returned.
Locals(t, label, q, x, ms, k) ==
    /\ pc' = [pc EXCEPT ![t] = label]
    /\ cq' = [cq EXCEPT ![t] = q]
    /\ item' = [item EXCEPT ![t] = x]
    /\ timeoutMs' = [timeoutMs EXCEPT ![t] = ms]
    /\ cont' = [cont EXCEPT ![t] = k]

\* Where a call made from k goes on with the value r: the worker's
\* "if (!item) continue;" is decided by the value dequeue returned.
AfterCall(k, r) ==
    IF k = "w_got" THEN (IF r.ok THEN "w_lock" ELSE "w_loop")
    ELSE IF k = "ret" THEN "idle"
    ELSE k

\* A call returns r to the place k it was made from.  What a caller of the
\* queue ("idle") gets is recorded in returned; what a caller of the pipeline
\* ("ret") does with the value is not modelled.
Return(t, r, k) ==
    /\ Locals(t, AfterCall(k, r), "inputQueue_", 0, -1, "idle")
    /\ IF k = "idle"
       THEN /\ result' = [result EXCEPT ![t] = NoResult]
            /\ returned' = r
       ELSE /\ result' = [result EXCEPT ![t] =
                              IF AfterCall(k, r) \in {"w_loop", "idle"}
                              THEN NoResult ELSE r]
            /\ UNCHANGED returned

EnqResult(b) == [op |-> "enqueue", ok |-> b, val |-> 0]
DeqResult(b, v) == [op |-> "dequeue", ok |-> b, val |-> v]

\* Mutant: enqueue pushes the item and notifies nobody.
EnqueueFinishSilent(t, q, x, k) ==
    IF shutdown_[q]
    THEN /\ Return(t, EnqResult(FALSE), k)
         /\ UNCHANGED <<queue_, notEmpty_, pushed>>
    ELSE /\ queue_' = [queue_ EXCEPT ![q] = Append(@, x)]
         /\ pushed' = [pushed EXCEPT ![q] = Append(@, x)]
         /\ UNCHANGED notEmpty_
         /\ Return(t, EnqResult(TRUE), k)

\* enqueue after its wait: "if (shutdown_) return false; push_back; notify_one".
EnqueueFinish(t, q, x, k) ==
    IF shutdown_[q]
    THEN /\ Return(t, EnqResult(FALSE), k)
         /\ UNCHANGED <<queue_, notEmpty_, pushed>>
    ELSE /\ queue_' = [queue_ EXCEPT ![q] = Append(@, x)]
         /\ pushed' = [pushed EXCEPT ![q] = Append(@, x)]
         /\ \E rest \in NotifyOne(notEmpty_[q]) :
                notEmpty_' = [notEmpty_ EXCEPT ![q] = rest]
         /\ Return(t, EnqResult(TRUE), k)

\* enqueue(x, ms) on queue q, returning to k: the caller takes the mutex and
\* evaluates the predicate for the first time.
Enqueue(t, q, x, ms, k) ==
    /\ IF EnqueuePred(q)
       THEN /\ EnqueueFinish(t, q, x, k)
            /\ UNCHANGED notFull_
       ELSE /\ notFull_' = [notFull_ EXCEPT ![q] = @ \cup {t}]
            /\ Locals(t, "enq_wait", q, x, ms, k)
            /\ UNCHANGED <<queue_, notEmpty_, pushed, result, returned>>
    /\ UNCHANGED <<shutdown_, popped, cleared>>
    /\ ObserveQueues

\* A notified (or spuriously woken) producer re-evaluates the predicate.
EnqueueWake(t) ==
    /\ pc[t] = "enq_wait"
    /\ t \notin notFull_[cq[t]]
    /\ LET q == cq[t] IN
       IF EnqueuePred(q)
       THEN /\ EnqueueFinish(t, q, item[t], cont[t])
            /\ UNCHANGED notFull_
       ELSE /\ notFull_' = [notFull_ EXCEPT ![q] = @ \cup {t}]
            /\ UNCHANGED <<queue_, notEmpty_, pushed, tvars, returned>>
    /\ UNCHANGED <<shutdown_, popped, cleared>>
    /\ UNCHANGED outside
    /\ ObserveQueues

\* Mutant: the value wait_for returns is ignored, the item is pushed anyway.
EnqueueTimeoutIgnored(t) ==
    /\ pc[t] = "enq_wait"
    /\ timeoutMs[t] > 0
    /\ LET q == cq[t] IN
       /\ notFull_' = [notFull_ EXCEPT ![q] = @ \ {t}]
       /\ EnqueueFinish(t, q, item[t], cont[t])
    /\ UNCHANGED <<shutdown_, popped, cleared>>
    /\ UNCHANGED outside
    /\ ObserveQueues

\* wait_for times out: it returns the predicate's value at that moment.
EnqueueTimeout(t) ==
    /\ pc[t] = "enq_wait"
    /\ timeoutMs[t] > 0
    /\ LET q == cq[t] IN
       /\ notFull_' = [notFull_ EXCEPT ![q] = @ \ {t}]
       /\ IF EnqueuePred(q)
          THEN EnqueueFinish(t, q, item[t], cont[t])
          ELSE /\ Return(t, EnqResult(FALSE), cont[t])
               /\ UNCHANGED <<queue_, notEmpty_, pushed>>
    /\ UNCHANGED <<shutdown_, popped, cleared>>
    /\ UNCHANGED outside
    /\ ObserveQueues

\* Mutant: dequeue takes the newest item (back() / pop_back()).
DequeueFinishBack(t, q, k) ==
    IF queue_[q] = <<>>
    THEN /\ Return(t, DeqResult(FALSE, 0), k)
         /\ UNCHANGED <<queue_, notFull_, popped>>
    ELSE /\ queue_' = [queue_ EXCEPT ![q] = SubSeq(@, 1, Len(@) - 1)]
         /\ popped' = [popped EXCEPT ![q] = Append(@, queue_[q][Len(queue_[q])])]
         /\ \E rest \in NotifyOne(notFull_[q]) :
                notFull_' = [notFull_ EXCEPT ![q] = rest]
         /\ Return(t, DeqResult(TRUE, queue_[q][Len(queue_[q])]), k)

\* dequeue after its wait: empty gives nullopt, else pop_front and notify_one.
DequeueFinish(t, q, k) ==
    IF queue_[q] = <<>>
    THEN /\ Return(t, DeqResult(FALSE, 0), k)
         /\ UNCHANGED <<queue_, notFull_, popped>>
    ELSE /\ queue_' = [queue_ EXCEPT ![q] = Tail(@)]
         /\ popped' = [popped EXCEPT ![q] = Append(@, Head(queue_[q]))]
         /\ \E rest \in NotifyOne(notFull_[q]) :
                notFull_' = [notFull_ EXCEPT ![q] = rest]
         /\ Return(t, DeqResult(TRUE, Head(queue_[q])), k)

\* dequeue(ms) on queue q, returning to k: first evaluation of the predicate.
Dequeue(t, q, ms, k) ==
    /\ IF DequeuePred(q)
       THEN /\ DequeueFinish(t, q, k)
            /\ UNCHANGED notEmpty_
       ELSE /\ notEmpty_' = [notEmpty_ EXCEPT ![q] = @ \cup {t}]
            /\ Locals(t, "deq_wait", q, 0, ms, k)
            /\ UNCHANGED <<queue_, notFull_, popped, result, returned>>
    /\ UNCHANGED <<shutdown_, pushed, cleared>>
    /\ ObserveQueues

DequeueWake(t) ==
    /\ pc[t] = "deq_wait"
    /\ t \notin notEmpty_[cq[t]]
    /\ LET q == cq[t] IN
       IF DequeuePred(q)
       THEN /\ DequeueFinish(t, q, cont[t])
            /\ UNCHANGED notEmpty_
       ELSE /\ notEmpty_' = [notEmpty_ EXCEPT ![q] = @ \cup {t}]
            /\ UNCHANGED <<queue_, notFull_, popped, tvars, returned>>
    /\ UNCHANGED <<shutdown_, pushed, cleared>>
    /\ UNCHANGED outside
    /\ ObserveQueues

DequeueTimeout(t) ==
    /\ pc[t] = "deq_wait"
    /\ timeoutMs[t] > 0
    /\ LET q == cq[t] IN
       /\ notEmpty_' = [notEmpty_ EXCEPT ![q] = @ \ {t}]
       /\ IF DequeuePred(q)
          THEN DequeueFinish(t, q, cont[t])
          ELSE /\ Return(t, DeqResult(FALSE, 0), cont[t])
               /\ UNCHANGED <<queue_, notFull_, popped>>
    /\ UNCHANGED <<shutdown_, pushed, cleared>>
    /\ UNCHANGED outside
    /\ ObserveQueues

\* A condition variable may wake a waiter with no notification at all.
SpuriousWake(t) ==
    /\ \/ /\ pc[t] = "enq_wait"
          /\ t \in notFull_[cq[t]]
          /\ notFull_' = [notFull_ EXCEPT ![cq[t]] = @ \ {t}]
          /\ UNCHANGED notEmpty_
       \/ /\ pc[t] = "deq_wait"
          /\ t \in notEmpty_[cq[t]]
          /\ notEmpty_' = [notEmpty_ EXCEPT ![cq[t]] = @ \ {t}]
          /\ UNCHANGED notFull_
    /\ UNCHANGED <<queue_, shutdown_, tvars, pushed, popped, cleared, returned, outside, candidates>>

\* Mutant: clear() also resets the shutdown flag.
ClearResetsShutdown(t, q, k) ==
    /\ queue_' = [queue_ EXCEPT ![q] = <<>>]
    /\ notFull_' = [notFull_ EXCEPT ![q] = {}]
    /\ cleared' = [cleared EXCEPT ![q] = @ \/ queue_[q] # <<>>]
    /\ shutdown_' = [shutdown_ EXCEPT ![q] = FALSE]
    /\ Return(t, [op |-> "clear", ok |-> TRUE, val |-> 0], k)
    /\ UNCHANGED <<notEmpty_, pushed, popped, candidates>>

\* clear() on queue q: pop everything, notify_all on notFull_.
Clear(t, q, k) ==
    /\ queue_' = [queue_ EXCEPT ![q] = <<>>]
    /\ notFull_' = [notFull_ EXCEPT ![q] = {}]
    /\ cleared' = [cleared EXCEPT ![q] = @ \/ queue_[q] # <<>>]
    /\ Return(t, [op |-> "clear", ok |-> TRUE, val |-> 0], k)
    /\ UNCHANGED <<shutdown_, notEmpty_, pushed, popped, candidates>>

\* shutdown() on queue q, first block: set the flag under the mutex.
ShutdownSet(t, q, k) ==
    /\ shutdown_' = [shutdown_ EXCEPT ![q] = TRUE]
    /\ Locals(t, "shutdown_notifyEmpty", q, 0, -1, k)
    /\ UNCHANGED <<queue_, notFull_, notEmpty_, result, pushed, popped, cleared,
                   returned, candidates>>

\* shutdown(): notEmpty_.notify_all(), outside the mutex.
ShutdownNotifyEmpty(t) ==
    /\ pc[t] = "shutdown_notifyEmpty"
    /\ notEmpty_' = [notEmpty_ EXCEPT ![cq[t]] = {}]
    /\ pc' = [pc EXCEPT ![t] = "shutdown_notifyFull"]
    /\ UNCHANGED <<queue_, shutdown_, notFull_, cq, item, timeoutMs, result, cont,
                   pushed, popped, cleared, returned, outside, candidates>>

\* shutdown(): notFull_.notify_all(), then return.
ShutdownNotifyFull(t) ==
    /\ pc[t] = "shutdown_notifyFull"
    /\ notFull_' = [notFull_ EXCEPT ![cq[t]] = {}]
    /\ Return(t, [op |-> "shutdown", ok |-> TRUE, val |-> 0], cont[t])
    /\ UNCHANGED <<queue_, shutdown_, notEmpty_, pushed, popped, cleared, outside, candidates>>

\* One step of a DataQueue method that thread t is inside.
QueueStep(t) ==
    \/ EnqueueWake(t)
    \/ EnqueueTimeout(t)
    \/ DequeueWake(t)
    \/ DequeueTimeout(t)
    \/ ShutdownNotifyEmpty(t)
    \/ ShutdownNotifyFull(t)
    \/ SpuriousWake(t)

\* ------------------------------------------------------ Processor<T>

Multiplier == 2          \* NumericProcessor(T multiplier = 2)
FilterThreshold == 2     \* the threshold a FilteringProcessor is created with

\* The strategies setProcessor installs.
Processors == {"NumericProcessor", "FilteringProcessor"}

\* A strategy written by the user of the framework whose process() throws
\* std::exception for the inputs it rejects (here the odd ones) and returns
\* the others as they are.
Throws(p, x) == p = "ThrowingProcessor" /\ x % 2 = 1

\* Mutant: the running average returns the sum, it does not divide.
ProcessSum(p, x) ==
    IF p = "NumericProcessor" THEN x * Multiplier
    ELSE IF p = "FilteringProcessor" THEN (IF x >= FilterThreshold THEN x ELSE 0)
    ELSE IF p = "StatisticalProcessor" THEN total_ + x
    ELSE x

\* processor_->process(x), for an x that p does not reject.  The running
\* average divides on the item type: T average = total_ / count_.
Process(p, x) ==
    IF p = "NumericProcessor" THEN x * Multiplier
    ELSE IF p = "FilteringProcessor" THEN (IF x >= FilterThreshold THEN x ELSE 0)
    ELSE IF p = "StatisticalProcessor" THEN (total_ + x) \div (count_ + 1)
    ELSE x

\* ------------------------------------------------- ProcessingSystem<T>

\* A thread moves on inside an operation.
Goto(t, label) ==
    /\ pc' = [pc EXCEPT ![t] = label]
    /\ UNCHANGED <<cq, item, timeoutMs, result, cont, returned, cvars, bvars>>

\* The threads whose function is still running.
Live == {w \in Workers : pc[w] \notin {"unborn", "done", "aborted"}}

\* Mutant: start() sets the flag without looking at its old value.
StartUnguarded(t) ==
    /\ pc[t] = "idle"
    /\ isRunning_' = TRUE
    /\ Goto(t, "start_check")
    /\ UNCHANGED <<qvars, pushed, popped, cleared, nextItem, workers_, joined,
                   processor_, processorMutex_, totalProcessed_, totalErrors_,
                   idx, terminated, cvars, bvars, svars>>
    /\ ObserveRunning

\* start(): "if (isRunning_.exchange(true)) {"
Start(t) ==
    /\ pc[t] = "idle"
    /\ isRunning_' = TRUE
    /\ IF isRunning_
       THEN Goto(t, "start_warn")
       ELSE Goto(t, "start_check")
    /\ UNCHANGED <<qvars, pushed, popped, cleared, nextItem, workers_, joined,
                   processor_, processorMutex_, totalProcessed_, totalErrors_,
                   idx, terminated, cvars, bvars, svars>>
    /\ ObserveRunning

\* start(): "LOG_WARNING("System already running"); return; }"
StartReturn(t) ==
    /\ pc[t] = "start_warn"
    /\ Goto(t, "idle")
    /\ UNCHANGED <<qvars, pushed, popped, cleared, outside, candidates>>

\* start(): "if (!processor_) { isRunning_ = false; return; }", else enter the
\* loop that creates the workers.
StartCheck(t) ==
    /\ pc[t] = "start_check"
    /\ IF processor_ = "None"
       THEN /\ isRunning_' = FALSE
            /\ Goto(t, "idle")
            /\ UNCHANGED idx
       ELSE /\ UNCHANGED isRunning_
            /\ idx' = [idx EXCEPT ![t] = 0]
            /\ IF numWorkers_ = 0
               THEN Goto(t, "idle")
               ELSE Goto(t, "start_spawn")
    /\ UNCHANGED <<qvars, pushed, popped, cleared, nextItem, workers_, joined,
                   processor_, processorMutex_, totalProcessed_, totalErrors_,
                   terminated, cvars, bvars, svars>>
    /\ ObserveRunning

\* start(): one "workers_.emplace_back(&workerThread, this, i)"; the new
\* thread starts at the head of its loop.  Which thread it is does not matter:
\* it is the first one not in use.
StartSpawn(t) ==
    /\ pc[t] = "start_spawn"
    /\ \E w \in Workers :
        /\ pc[w] = "unborn"
        /\ \A v \in Workers : pc[v] = "unborn" => w <= v
        /\ workers_' = Append(workers_, w)
        /\ idx' = [idx EXCEPT ![t] = IF @ + 1 < numWorkers_ THEN @ + 1 ELSE 0]
        /\ pc' = [pc EXCEPT ![w] = "w_loop",
                            ![t] = IF idx[t] + 1 < numWorkers_
                                   THEN "start_spawn" ELSE "idle"]
    /\ UNCHANGED <<qvars, cq, item, timeoutMs, result, cont, pushed, popped,
                   cleared, returned, nextItem, isRunning_, joined, processor_,
                   processorMutex_, totalProcessed_, totalErrors_, terminated,
                   cvars, bvars, svars, candidates>>

\* Mutant: stop() clears the flag without looking at its old value.
StopUnguarded(t) ==
    /\ pc[t] = "idle"
    /\ isRunning_' = FALSE
    /\ Goto(t, "stop_shutdown")
    /\ UNCHANGED <<qvars, pushed, popped, cleared, nextItem, workers_, joined,
                   processor_, processorMutex_, totalProcessed_, totalErrors_,
                   idx, terminated, cvars, bvars, svars>>
    /\ ObserveRunning

\* stop(): "if (!isRunning_.exchange(false)) {"
Stop(t) ==
    /\ pc[t] = "idle"
    /\ isRunning_' = FALSE
    /\ IF ~isRunning_
       THEN Goto(t, "stop_ret")
       ELSE Goto(t, "stop_shutdown")
    /\ UNCHANGED <<qvars, pushed, popped, cleared, nextItem, workers_, joined,
                   processor_, processorMutex_, totalProcessed_, totalErrors_,
                   idx, terminated, cvars, bvars, svars>>
    /\ ObserveRunning

\* stop(): "return; }" of a stop() that found the flag false.
StopReturn(t) ==
    /\ pc[t] = "stop_ret"
    /\ Goto(t, "idle")
    /\ UNCHANGED <<qvars, pushed, popped, cleared, outside, candidates>>

\* stop(): "inputQueue_.shutdown();" begins; the range-for starts at begin().
StopShutdown(t) ==
    /\ pc[t] = "stop_shutdown"
    /\ ShutdownSet(t, "inputQueue_", "stop_join")
    /\ idx' = [idx EXCEPT ![t] = 1]
    /\ UNCHANGED <<nextItem, isRunning_, workers_, joined, processor_,
                   processorMutex_, totalProcessed_, totalErrors_, terminated,
                   cvars, bvars, svars, candidates>>

\* stop(): one turn of "for (auto& worker : workers_) if (worker.joinable())
\* worker.join();".  join() returns when the thread's function has returned.
StopJoin(t) ==
    /\ pc[t] = "stop_join"
    /\ IF idx[t] > Len(workers_)
       THEN /\ Goto(t, "stop_clear")
            /\ idx' = [idx EXCEPT ![t] = 0]
            /\ UNCHANGED joined
       ELSE /\ LET w == workers_[idx[t]] IN
               IF w \in joined
               THEN UNCHANGED joined
               ELSE /\ pc[w] = "done"
                    /\ joined' = joined \cup {w}
            /\ idx' = [idx EXCEPT ![t] = @ + 1]
            /\ Goto(t, "stop_join")
    /\ UNCHANGED <<qvars, pushed, popped, cleared, nextItem, isRunning_,
                   workers_, processor_, processorMutex_, totalProcessed_,
                   totalErrors_, terminated, cvars, bvars, svars, candidates>>

\* Mutant: stop() also empties the output queue before it returns.
StopClearOutput(t) ==
    /\ pc[t] = "stop_clear"
    /\ LET held == {workers_[i] : i \in 1 .. Len(workers_)} IN
       IF held \subseteq joined
       THEN /\ workers_' = <<>>
            /\ joined' = joined \ held
            /\ pc' = [x \in Threads |-> IF x = t THEN "idle"
                                        ELSE IF x \in held THEN "unborn"
                                        ELSE pc[x]]
            /\ UNCHANGED terminated
       ELSE /\ terminated' = TRUE
            /\ pc' = [x \in Threads |-> "aborted"]
            /\ UNCHANGED <<workers_, joined>>
    /\ queue_' = [queue_ EXCEPT !["outputQueue_"] = <<>>]
    /\ UNCHANGED <<shutdown_, notFull_, notEmpty_, cq, item, timeoutMs, result,
                   cont, pushed, popped, cleared, returned, nextItem, isRunning_,
                   processor_, processorMutex_, totalProcessed_, totalErrors_,
                   idx, cvars, bvars, svars, candidates>>

\* stop(): "workers_.clear();" destroys the std::thread objects.  Destroying a
\* joinable std::thread calls std::terminate(), which ends the process: every
\* thread is aborted where it stands.
StopClear(t) ==
    /\ pc[t] = "stop_clear"
    /\ LET held == {workers_[i] : i \in 1 .. Len(workers_)} IN
       IF held \subseteq joined
       THEN /\ workers_' = <<>>
            /\ joined' = joined \ held
            /\ pc' = [x \in Threads |-> IF x = t THEN "idle"
                                        ELSE IF x \in held THEN "unborn"
                                        ELSE pc[x]]
            /\ UNCHANGED terminated
       ELSE /\ terminated' = TRUE
            /\ pc' = [x \in Threads |-> "aborted"]
            /\ UNCHANGED <<workers_, joined>>
    /\ UNCHANGED <<qvars, cq, item, timeoutMs, result, cont, pushed, popped,
                   cleared, returned, nextItem, isRunning_, processor_, processorMutex_,
                   totalProcessed_, totalErrors_, idx, cvars, bvars, svars, candidates>>

\* Mutant: setProcessor does not take processorMutex_.
SetProcessorUnlocked(t, p) ==
    /\ pc[t] = "idle"
    /\ processor_' = p
    /\ total_' = 0
    /\ count_' = 0
    /\ Goto(t, "idle")
    /\ UNCHANGED <<qvars, pushed, popped, cleared, nextItem, isRunning_,
                   workers_, joined, processorMutex_, totalProcessed_,
                   totalErrors_, idx, terminated, cvars, bvars, snapshot>>
    /\ ObserveProcessor

\* setProcessor(processor): lock_guard lock(processorMutex_); processor_ = ...
\* with a strategy instance that has just been created, as setProcessorByType
\* does: its accumulator is at its initial value.
SetProcessorTo(t, p) ==
    /\ pc[t] = "idle"
    /\ processorMutex_ = 0
    /\ processor_' = p
    /\ total_' = 0
    /\ count_' = 0
    /\ Goto(t, "idle")
    /\ UNCHANGED <<qvars, pushed, popped, cleared, nextItem, isRunning_,
                   workers_, joined, processorMutex_, totalProcessed_,
                   totalErrors_, idx, terminated, cvars, bvars, snapshot>>
    /\ ObserveProcessor

SetProcessor(t) == \E p \in Processors : SetProcessorTo(t, p)

\* The timeoutMs argument addData is called with: the default.
AddDataTimeouts == {1000}

\* addData(data, timeoutMs): "if (!isRunning_) return false;".  The callers
\* make at most n calls, with the items 1, 2, ...
AddDataUpTo(t, n) ==
    /\ pc[t] = "idle"
    /\ nextItem < n
    /\ IF ~isRunning_
       THEN /\ Goto(t, "idle")
            /\ UNCHANGED nextItem
       ELSE /\ nextItem' = nextItem + 1
            /\ \E ms \in AddDataTimeouts :
                   Locals(t, "add_enqueue", "inputQueue_", nextItem + 1, ms, "ret")
            /\ UNCHANGED <<result, returned>>
    /\ UNCHANGED <<qvars, pushed, popped, cleared, pvars, cvars, bvars, svars, candidates>>

AddData(t) == AddDataUpTo(t, MaxSubmits)

\* addData: "return inputQueue_.enqueue(data, timeoutMs);"
AddEnqueue(t) ==
    /\ pc[t] = "add_enqueue"
    /\ Enqueue(t, "inputQueue_", item[t], timeoutMs[t], cont[t])
    /\ UNCHANGED outside

\* getResult(timeoutMs = 1000): "return outputQueue_.dequeue(timeoutMs);"
GetResult(t) ==
    /\ pc[t] = "idle"
    /\ Dequeue(t, "outputQueue_", 1000, "ret")
    /\ UNCHANGED outside

\* The timeoutMs argument getResults is called with: the default.
BatchTimeout == 100

\* getResults(count, timeoutMs = 100) is called: "std::vector<T> results;" and
\* the loop starts with i = 0.  A count of 0 returns the empty vector.
GetResults(t) ==
    /\ pc[t] = "idle"
    /\ \E n \in 0 .. MaxBatch :
           /\ count' = [count EXCEPT ![t] = n]
           /\ pc' = [pc EXCEPT ![t] = IF n = 0 THEN "idle" ELSE "batch_dequeue"]
    /\ results' = [results EXCEPT ![t] = <<>>]
    /\ iter' = [iter EXCEPT ![t] = 0]
    /\ UNCHANGED <<qvars, cq, item, timeoutMs, result, cont, hvars, pvars, cvars,
                   svars, candidates>>

\* getResults: "auto result = outputQueue_.dequeue(timeoutMs);"
BatchDequeue(t) ==
    /\ pc[t] = "batch_dequeue"
    /\ Dequeue(t, "outputQueue_", BatchTimeout, "batch_got")
    /\ UNCHANGED outside

\* getResults: "if (result) results.push_back(result.value());", "++i", and
\* "return results;" when i reaches count.
BatchGot(t) ==
    /\ pc[t] = "batch_got"
    /\ results' = [results EXCEPT
                      ![t] = IF result[t].ok THEN Append(@, result[t].val) ELSE @]
    /\ iter' = [iter EXCEPT ![t] = @ + 1]
    /\ pc' = [pc EXCEPT ![t] = IF iter[t] + 1 < count[t]
                                THEN "batch_dequeue" ELSE "idle"]
    /\ result' = [result EXCEPT ![t] = NoResult]
    /\ UNCHANGED <<qvars, cq, item, timeoutMs, cont, hvars, pvars, cvars, svars,
                   candidates, count>>

\* The six fields of Statistics in the present state.
Statistics ==
    StatisticsOf(queue_, totalProcessed_, totalErrors_, isRunning_, processor_)

\* What a getStatistics step leaves alone.
statFrame ==
    <<qvars, cq, item, timeoutMs, result, cont, hvars, isRunning_, workers_,
      joined, processor_, totalProcessed_, totalErrors_, idx, terminated, cvars, bvars,
      total_, count_>>

\* getStatistics() is called.
GetStatistics(t) ==
    /\ pc[t] = "idle"
    /\ pc' = [pc EXCEPT ![t] = "stat_lock"]
    /\ candidates' = [candidates EXCEPT ![t] = {Statistics}]
    /\ UNCHANGED <<statFrame, processorMutex_, snapshot>>

\* getStatistics: "std::lock_guard<std::mutex> lock(processorMutex_);"
StatLock(t) ==
    /\ pc[t] = "stat_lock"
    /\ processorMutex_ = 0
    /\ processorMutex_' = t
    /\ pc' = [pc EXCEPT ![t] = "stat_read"]
    /\ UNCHANGED <<statFrame, snapshot, candidates>>

\* getStatistics: the initializers of "return { inputQueue_.size(),
\* outputQueue_.size(), totalProcessed_.load(), totalErrors_.load(),
\* isRunning_.load(), ..." are evaluated one after the other, left to right.
StatRead(t) ==
    /\ pc[t] = "stat_read"
    /\ Len(snapshot[t]) < 5
    /\ snapshot' = [snapshot EXCEPT
                       ![t] = Append(@, Statistics[Len(snapshot[t]) + 1])]
    /\ candidates' = [candidates EXCEPT
                         ![t] = {c \in @ : Agrees(snapshot'[t], c)}]
    /\ UNCHANGED <<statFrame, processorMutex_, pc>>

\* getStatistics: "processor_ ? processor_->getName() : "None" };" then the
\* lock_guard is released and the Statistics is returned.
StatReturn(t) ==
    /\ pc[t] = "stat_read"
    /\ Len(snapshot[t]) = 5
    /\ processorMutex_' = 0
    /\ pc' = [pc EXCEPT ![t] = "idle"]
    /\ snapshot' = [snapshot EXCEPT ![t] = <<>>]
    /\ candidates' = [candidates EXCEPT ![t] = {}]
    /\ UNCHANGED statFrame

\* workerThread: "while (isRunning_.load() || ..." reads the flag.
WorkerLoop(w) ==
    /\ pc[w] = "w_loop"
    /\ Goto(w, IF isRunning_ THEN "w_dequeue" ELSE "w_empty")
    /\ UNCHANGED <<qvars, pushed, popped, cleared, outside, candidates>>

\* workerThread: "... || !inputQueue_.empty())" with the flag read as false;
\* the thread's function returns when the queue is empty.
WorkerEmpty(w) ==
    /\ pc[w] = "w_empty"
    /\ Goto(w, IF queue_["inputQueue_"] # <<>> THEN "w_dequeue" ELSE "done")
    /\ UNCHANGED <<qvars, pushed, popped, cleared, outside, candidates>>

\* workerThread: "auto item = inputQueue_.dequeue(500);"
WorkerDequeue(w) ==
    /\ pc[w] = "w_dequeue"
    /\ Dequeue(w, "inputQueue_", 500, "w_got")
    /\ UNCHANGED outside

\* Mutant: the worker does not take processorMutex_.
WorkerLockFree(w) ==
    /\ pc[w] = "w_lock"
    /\ IF processor_ = "None"
       THEN /\ totalErrors_' = totalErrors_ + 1
            /\ pc' = [pc EXCEPT ![w] = "w_loop"]
            /\ result' = [result EXCEPT ![w] = NoResult]
            /\ UNCHANGED processorMutex_
       ELSE /\ processorMutex_' = w
            /\ pc' = [pc EXCEPT ![w] = "w_process"]
            /\ UNCHANGED <<totalErrors_, result>>
    /\ UNCHANGED <<qvars, cq, item, timeoutMs, cont, hvars, isRunning_, workers_,
                   joined, processor_, totalProcessed_, idx, terminated, cvars, bvars, svars>>
    /\ ObserveCounters

\* workerThread: lock_guard lock(processorMutex_); "if (!processor_)" counts an
\* error and continues, which releases the lock.
WorkerLock(w) ==
    /\ pc[w] = "w_lock"
    /\ processorMutex_ = 0
    /\ IF processor_ = "None"
       THEN /\ totalErrors_' = totalErrors_ + 1
            /\ pc' = [pc EXCEPT ![w] = "w_loop"]
            /\ result' = [result EXCEPT ![w] = NoResult]
            /\ UNCHANGED processorMutex_
       ELSE /\ processorMutex_' = w
            /\ pc' = [pc EXCEPT ![w] = "w_process"]
            /\ UNCHANGED <<totalErrors_, result>>
    /\ UNCHANGED <<qvars, cq, item, timeoutMs, cont, hvars, isRunning_, workers_,
                   joined, processor_, totalProcessed_, idx, terminated, cvars, bvars, svars>>
    /\ ObserveCounters

\* Mutant: the worker hands the item to the output queue as it came.
WorkerProcessRaw(w) ==
    /\ pc[w] = "w_process"
    /\ ~Throws(processor_, result[w].val)
    /\ Enqueue(w, "outputQueue_", result[w].val, 500, "w_enqueued")
    /\ IF processor_ = "StatisticalProcessor"
       THEN /\ total_' = total_ + result[w].val
            /\ count_' = count_ + 1
       ELSE UNCHANGED <<total_, count_>>
    /\ UNCHANGED <<nextItem, pvars, cvars, bvars, snapshot>>

\* workerThread: "T result = processor_->process(item.value());" and the call
\* "outputQueue_.enqueue(result, 500)", both with processorMutex_ held.
\* StatisticalProcessor::process does total_ += input; count_++.
WorkerProcess(w) ==
    /\ pc[w] = "w_process"
    /\ ~Throws(processor_, result[w].val)
    /\ Enqueue(w, "outputQueue_", Process(processor_, result[w].val), 500,
               "w_enqueued")
    /\ IF processor_ = "StatisticalProcessor"
       THEN /\ total_' = total_ + result[w].val
            /\ count_' = count_ + 1
       ELSE UNCHANGED <<total_, count_>>
    /\ UNCHANGED <<nextItem, pvars, cvars, bvars, snapshot>>

\* workerThread: process() throws; unwinding leaves the try block, which
\* destroys the lock_guard, and control reaches the catch clause.
WorkerThrow(w) ==
    /\ pc[w] = "w_process"
    /\ Throws(processor_, result[w].val)
    /\ processorMutex_' = 0
    /\ pc' = [pc EXCEPT ![w] = "w_catch"]
    /\ result' = [result EXCEPT ![w] = NoResult]
    /\ UNCHANGED <<qvars, cq, item, timeoutMs, cont, hvars, isRunning_, workers_,
                   joined, processor_, totalProcessed_, totalErrors_, idx,
                   terminated, cvars, bvars, svars, candidates>>

\* Mutant: the catch clause swallows the exception without counting it.
WorkerCatchSilent(w) ==
    /\ pc[w] = "w_catch"
    /\ Goto(w, "w_loop")
    /\ UNCHANGED <<qvars, pushed, popped, cleared, nextItem, isRunning_,
                   workers_, joined, processor_, processorMutex_,
                   totalProcessed_, totalErrors_, idx, terminated, cvars, bvars, svars,
                   candidates>>

\* workerThread: "catch (const std::exception& e) { ... totalErrors_++; }" and
\* back to the head of the loop.
WorkerCatch(w) ==
    /\ pc[w] = "w_catch"
    /\ totalErrors_' = totalErrors_ + 1
    /\ Goto(w, "w_loop")
    /\ UNCHANGED <<qvars, pushed, popped, cleared, nextItem, isRunning_,
                   workers_, joined, processor_, processorMutex_,
                   totalProcessed_, idx, terminated, cvars, bvars, svars>>
    /\ ObserveCounters

\* Mutant: the value enqueue returned is ignored, every result is counted as
\* processed.
WorkerCountAlwaysProcessed(w) ==
    /\ pc[w] = "w_enqueued"
    /\ totalProcessed_' = totalProcessed_ + 1
    /\ UNCHANGED totalErrors_
    /\ processorMutex_' = 0
    /\ pc' = [pc EXCEPT ![w] = "w_loop"]
    /\ result' = [result EXCEPT ![w] = NoResult]
    /\ UNCHANGED <<qvars, cq, item, timeoutMs, cont, hvars, isRunning_, workers_,
                   joined, processor_, idx, terminated, cvars, bvars, svars>>
    /\ ObserveCounters

\* workerThread: totalProcessed_++ or totalErrors_++ by what enqueue returned;
\* the lock_guard is released at the end of the try block.
WorkerCount(w) ==
    /\ pc[w] = "w_enqueued"
    /\ IF result[w].ok
       THEN /\ totalProcessed_' = totalProcessed_ + 1
            /\ UNCHANGED totalErrors_
       ELSE /\ totalErrors_' = totalErrors_ + 1
            /\ UNCHANGED totalProcessed_
    /\ processorMutex_' = 0
    /\ pc' = [pc EXCEPT ![w] = "w_loop"]
    /\ result' = [result EXCEPT ![w] = NoResult]
    /\ UNCHANGED <<qvars, cq, item, timeoutMs, cont, hvars, isRunning_, workers_,
                   joined, processor_, idx, terminated, cvars, bvars, svars>>
    /\ ObserveCounters

\* ------------------------------------------- callers of a single DataQueue

QueueUnderTest == "inputQueue_"

\* A thread calls enqueue(item, timeoutMs) with a fresh item.
CallEnqueue(t) ==
    /\ pc[t] = "idle"
    /\ nextItem < MaxItems
    /\ nextItem' = nextItem + 1
    /\ \E ms \in TimeoutArgs :
           Enqueue(t, QueueUnderTest, nextItem + 1, ms, "idle")
    /\ UNCHANGED <<pvars, cvars, bvars, svars>>

\* A thread calls dequeue(timeoutMs).
CallDequeue(t) ==
    /\ pc[t] = "idle"
    /\ \E ms \in TimeoutArgs :
           Dequeue(t, QueueUnderTest, ms, "idle")
    /\ UNCHANGED outside

\* A thread calls clear().
CallClear(t) ==
    /\ pc[t] = "idle"
    /\ Clear(t, QueueUnderTest, "idle")
    /\ UNCHANGED outside

\* A thread calls shutdown().
CallShutdown(t) ==
    /\ pc[t] = "idle"
    /\ ShutdownSet(t, QueueUnderTest, "idle")
    /\ UNCHANGED outside

\* The state after construction, but for the constructor's arguments.
Constructed ==
    /\ queue_ = [q \in Queues |-> <<>>]
    /\ shutdown_ = [q \in Queues |-> FALSE]
    /\ notFull_ = [q \in Queues |-> {}]
    /\ notEmpty_ = [q \in Queues |-> {}]
    /\ pc = [t \in Threads |-> IF t \in Clients THEN "idle" ELSE "unborn"]
    /\ cq = [t \in Threads |-> QueueUnderTest]
    /\ item = [t \in Threads |-> 0]
    /\ timeoutMs = [t \in Threads |-> -1]
    /\ result = [t \in Threads |-> NoResult]
    /\ cont = [t \in Threads |-> "idle"]
    /\ pushed = [q \in Queues |-> <<>>]
    /\ popped = [q \in Queues |-> <<>>]
    /\ cleared = [q \in Queues |-> FALSE]
    /\ returned = NoReturn
    /\ nextItem = 0
    /\ isRunning_ = FALSE
    /\ workers_ = <<>>
    /\ joined = {}
    /\ processor_ = "None"
    /\ processorMutex_ = 0
    /\ totalProcessed_ = 0
    /\ totalErrors_ = 0
    /\ idx = [t \in Clients |-> 0]
    /\ terminated = FALSE
    /\ total_ = 0
    /\ count_ = 0
    /\ snapshot = [t \in Clients |-> <<>>]
    /\ candidates = [t \in Clients |-> {}]
    /\ results = [t \in Clients |-> <<>>]
    /\ iter = [t \in Clients |-> 0]
    /\ count = [t \in Clients |-> 0]

\* DataQueue<T> queue(QueueSize);
QueueInit ==
    /\ Constructed
    /\ maxSize_ = [q \in Queues |-> QueueSize]
    /\ numWorkers_ = 0

\* ProcessingSystem<T> system(NumWorkers, PipeQueueSize);
Init ==
    /\ Constructed
    /\ maxSize_ = [q \in Queues |-> PipeQueueSize]
    /\ numWorkers_ = NumWorkers

QueueNext ==
    \E t \in Clients :
        \/ CallEnqueue(t)
        \/ CallDequeue(t)
        \/ CallClear(t)
        \/ CallShutdown(t)
        \/ QueueStep(t)

\* Threads calling the methods of one DataQueue in any interleaving.
QueueSpec == QueueInit /\ [][QueueNext]_vars

\* Threads calling the public operations of one ProcessingSystem in any
\* interleaving, and its worker threads.  Nothing runs after std::terminate().
Next ==
    \/ \E t \in Clients :
         \/ Start(t)
         \/ StartReturn(t)
         \/ StartCheck(t)
         \/ StartSpawn(t)
         \/ Stop(t)
         \/ StopReturn(t)
         \/ StopShutdown(t)
         \/ StopJoin(t)
         \/ StopClear(t)
         \/ SetProcessor(t)
         \/ AddData(t)
         \/ AddEnqueue(t)
         \/ GetResult(t)
    \/ \E w \in Workers :
         \/ WorkerLoop(w)
         \/ WorkerEmpty(w)
         \/ WorkerDequeue(w)
         \/ WorkerLock(w)
         \/ WorkerProcess(w)
         \/ WorkerCount(w)
    \/ \E t \in Threads : QueueStep(t)

Spec == Init /\ [][Next]_vars

\* The steps a runnable thread takes on its own once it is inside a DataQueue
\* method: a woken waiter re-checks its predicate, shutdown() goes on to notify.
QueueProgress(t) ==
    \/ EnqueueWake(t)
    \/ DequeueWake(t)
    \/ ShutdownNotifyEmpty(t)
    \/ ShutdownNotifyFull(t)

\* The deadline of a wait_for passes.
QueueTimeout(t) ==
    \/ EnqueueTimeout(t)
    \/ DequeueTimeout(t)

\* QueueSpec with a scheduler that lets every runnable thread run and a clock
\* that advances; nothing obliges a caller to make a further call.
FairQueueSpec ==
    /\ QueueSpec
    /\ \A t \in Clients : WF_vars(QueueProgress(t)) /\ WF_vars(QueueTimeout(t))

\* ------------------------------------------- several producers, consumers

\* The threads that call the queue's methods in CrowdSpec.
Callers == 1 .. NumCallers

\* DataQueue<T> queue(CrowdQueueSize);
CrowdInit ==
    /\ Constructed
    /\ maxSize_ = [q \in Queues |-> CrowdQueueSize]
    /\ numWorkers_ = 0

\* A further thread that uses the queue is created.
CallerStart(t) ==
    /\ pc[t] = "unborn"
    /\ pc' = [pc EXCEPT ![t] = "idle"]
    /\ UNCHANGED <<qvars, cq, item, timeoutMs, result, cont, hvars, pvars,
                   cvars, bvars, svars, candidates>>

CrowdNext ==
    \E t \in Callers :
        \/ CallerStart(t)
        \/ CallEnqueue(t)
        \/ CallDequeue(t)
        \/ CallClear(t)
        \/ EnqueueWake(t)
        \/ EnqueueTimeout(t)
        \/ DequeueWake(t)
        \/ DequeueTimeout(t)
        \/ SpuriousWake(t)

\* Several threads calling enqueue, dequeue and clear on one DataQueue of
\* capacity CrowdQueueSize in any interleaving; the queue is never shut down.
CrowdSpec == CrowdInit /\ [][CrowdNext]_vars

\* CrowdSpec with a scheduler that lets every runnable thread run and a clock
\* that advances; nothing obliges a caller to make a further call.
FairCrowdSpec ==
    /\ CrowdSpec
    /\ \A t \in Callers : WF_vars(QueueProgress(t)) /\ WF_vars(QueueTimeout(t))

\* ------------------------------------------------ a pool of several workers

\* The thread that owns the pipeline: it installs strategies, starts, stops.
Controller == 1

\* The strategies installed in PoolSpec.
PoolProcessors == {"NumericProcessor", "ThrowingProcessor"}

\* ProcessingSystem<T> system(PoolWorkers, PipeQueueSize);
PoolInit ==
    /\ Constructed
    /\ maxSize_ = [q \in Queues |-> PipeQueueSize]
    /\ numWorkers_ = PoolWorkers

PoolNext ==
    \/ \E p \in PoolProcessors : SetProcessorTo(Controller, p)
    \/ Start(Controller)
    \/ StartReturn(Controller)
    \/ StartCheck(Controller)
    \/ StartSpawn(Controller)
    \/ Stop(Controller)
    \/ StopReturn(Controller)
    \/ StopShutdown(Controller)
    \/ StopJoin(Controller)
    \/ StopClear(Controller)
    \/ \E t \in Clients \ {Controller} :
         \/ AddData(t)
         \/ AddEnqueue(t)
         \/ GetResult(t)
    \/ \E w \in Workers :
         \/ WorkerLoop(w)
         \/ WorkerEmpty(w)
         \/ WorkerDequeue(w)
         \/ WorkerLock(w)
         \/ WorkerProcess(w)
         \/ WorkerThrow(w)
         \/ WorkerCatch(w)
         \/ WorkerCount(w)
    \/ \E t \in Threads : QueueStep(t)

\* One thread drives the lifecycle of a pipeline with PoolWorkers workers and
\* swaps strategies, one of which throws; the other threads submit and retrieve.
PoolSpec == PoolInit /\ [][PoolNext]_vars

\* ------------------------------------------- one worker, roomy queues

\* The strategies installed in FlowSpec: a stateless one and the running
\* average.
FlowProcessors == {"NumericProcessor", "StatisticalProcessor"}

\* ProcessingSystem<T> system(1, FlowQueueSize);
FlowInit ==
    /\ Constructed
    /\ maxSize_ = [q \in Queues |-> FlowQueueSize]
    /\ numWorkers_ = 1

\* The owner installs one strategy, before anything else.
InstallStrategy(t) ==
    /\ processor_ = "None"
    /\ \E p \in FlowProcessors : SetProcessorTo(t, p)

FlowAddData(t) == AddDataUpTo(t, FlowItems)

FlowNext ==
    \/ InstallStrategy(Controller)
    \/ Start(Controller)
    \/ StartReturn(Controller)
    \/ StartCheck(Controller)
    \/ StartSpawn(Controller)
    \/ Stop(Controller)
    \/ StopReturn(Controller)
    \/ StopShutdown(Controller)
    \/ StopJoin(Controller)
    \/ StopClear(Controller)
    \/ \E t \in Clients \ {Controller} :
         \/ FlowAddData(t)
         \/ AddEnqueue(t)
         \/ GetResult(t)
    \/ \E w \in Workers :
         \/ WorkerLoop(w)
         \/ WorkerEmpty(w)
         \/ WorkerDequeue(w)
         \/ WorkerLock(w)
         \/ WorkerProcess(w)
         \/ WorkerCount(w)
    \/ \E t \in Threads : QueueStep(t)

\* One thread installs a strategy and drives the lifecycle of a pipeline
\* whose queues can hold every item submitted; the other threads submit and
\* retrieve.
FlowSpec == FlowInit /\ [][FlowNext]_vars

\* One thread installs a strategy and drives the lifecycle; the other
\* threads submit, and retrieve one result or a batch.
DrainNext ==
    \/ FlowNext
    \/ \E t \in Clients \ {Controller} :
         \/ GetResults(t)
         \/ BatchDequeue(t)
         \/ BatchGot(t)

DrainSpec == FlowInit /\ [][DrainNext]_vars

\* The same pipeline with any client also asking for statistics.
StatsNext ==
    \/ FlowNext
    \/ \E t \in Clients :
         \/ GetStatistics(t)
         \/ StatLock(t)
         \/ StatRead(t)
         \/ StatReturn(t)

StatsSpec == FlowInit /\ [][StatsNext]_vars

\* The steps inside a pipeline method that thread t has called.
ClientProgress(t) ==
    \/ StartReturn(t)
    \/ StartCheck(t)
    \/ StartSpawn(t)
    \/ StopReturn(t)
    \/ StopShutdown(t)
    \/ StopJoin(t)
    \/ StopClear(t)
    \/ AddEnqueue(t)

\* The steps of worker thread w outside the queues.
WorkerProgress(w) ==
    \/ WorkerLoop(w)
    \/ WorkerEmpty(w)
    \/ WorkerDequeue(w)
    \/ WorkerLock(w)
    \/ WorkerProcess(w)
    \/ WorkerCount(w)

\* Spec with a scheduler that lets every runnable thread run and a clock that
\* advances; nothing obliges a caller to make a further call.
FairSpec ==
    /\ Spec
    /\ \A t \in Threads : WF_vars(QueueProgress(t)) /\ WF_vars(QueueTimeout(t))
    /\ \A t \in Clients : WF_vars(ClientProgress(t))
    /\ \A w \in Workers : WF_vars(WorkerProgress(w))

\* The steps inside getResults that thread t has called.
BatchProgress(t) ==
    \/ BatchDequeue(t)
    \/ BatchGot(t)

\* DrainSpec with a scheduler that lets every runnable thread run and a clock
\* that advances; nothing obliges a caller to make a further call.
FairDrainSpec ==
    /\ DrainSpec
    /\ \A t \in Threads : WF_vars(QueueProgress(t)) /\ WF_vars(QueueTimeout(t))
    /\ \A t \in Clients : WF_vars(ClientProgress(t)) /\ WF_vars(BatchProgress(t))
    /\ \A w \in Workers : WF_vars(WorkerProgress(w))

\* ------------------------------------------------------------------ claims

Q == QueueUnderTest

\* C1: in every reachable state the number of queued items is at most the
\* capacity given at construction.
C1_LengthWithinCapacity ==
    \A q \in Queues : Len(queue_[q]) <= maxSize_[q]

\* C1 witness: the queue is full and a producer is blocked on it.
C1_Witness ==
    /\ Len(queue_[Q]) = maxSize_[Q]
    /\ \E t \in Clients : pc[t] = "enq_wait" /\ cq[t] = Q

\* C2: without clear(), the items dequeue has returned, in order, followed by
\* the items still queued, are exactly the items whose enqueue succeeded, in
\* order (FIFO, nothing duplicated, nothing dropped), and the value a dequeue
\* has just returned is the item it removed.
C2_Fifo ==
    ~cleared[Q] =>
        /\ pushed[Q] = popped[Q] \o queue_[Q]
        /\ (returned.op = "dequeue" /\ returned.ok) =>
               /\ popped[Q] # <<>>
               /\ returned.val = popped[Q][Len(popped[Q])]

\* C2 witness: two items have been dequeued, the second one just now, and a
\* third is still queued.
C2_Witness ==
    /\ ~cleared[Q]
    /\ Len(popped[Q]) = 2
    /\ queue_[Q] # <<>>
    /\ returned.op = "dequeue" /\ returned.ok

\* C3: once the shutdown flag is set it stays set, and from then on no step
\* appends an item and no enqueue returns true.
C3_ShutdownIsFinal ==
    [][shutdown_[Q] =>
          /\ shutdown_'[Q]
          /\ pushed'[Q] = pushed[Q]
          /\ (returned' # returned /\ returned'.op = "enqueue")
                 => ~returned'.ok]_vars

\* C3 witness: the queue is shut down with free space, and an enqueue has
\* returned false.
C3_Witness ==
    /\ shutdown_[Q]
    /\ Len(queue_[Q]) < maxSize_[Q]
    /\ returned.op = "enqueue" /\ ~returned.ok

\* C4: every enqueue that is blocked while the queue is shut down eventually
\* returns, whatever its timeout argument.
C4_ShutdownUnblocksProducers ==
    \A t \in Clients :
        (pc[t] = "enq_wait" /\ shutdown_[cq[t]]) ~> (pc[t] # "enq_wait")

C6_FullQueueTimesOut ==
    /\ [][/\ (nextItem' = nextItem + 1 /\ EnqueuePred(Q)) =>
                /\ queue_'[Q] = Append(queue_[Q], nextItem + 1)
                /\ returned'.op = "enqueue" /\ returned'.ok
          /\ \A t \in Clients :
                (/\ pc[t] = "enq_wait" /\ pc'[t] = "idle"
                 /\ ~shutdown_[Q] /\ Len(queue_[Q]) = maxSize_[Q]) =>
                    /\ queue_'[Q] = queue_[Q]
                    /\ returned' = EnqResult(FALSE)
          /\ popped'[Q] # popped[Q] =>
                /\ returned'.val = Head(queue_[Q])
                /\ queue_'[Q] = Tail(queue_[Q])]_vars
    /\ \A t \in Clients :
           (pc[t] = "enq_wait" /\ timeoutMs[t] > 0) ~> (pc[t] = "idle")

\* C6 witness: the queue is full, not shut down, and an enqueue has returned
\* false.
C6_Witness ==
    /\ Len(queue_[Q]) = maxSize_[Q]
    /\ ~shutdown_[Q]
    /\ returned.op = "enqueue" /\ ~returned.ok

\* No stop() has got past its exchange: the input queue is not shut down and
\* no stop() is about to shut it down.
StopNeverBegun ==
    /\ ~shutdown_["inputQueue_"]
    /\ \A t \in Clients : pc[t] # "stop_shutdown"

\* No start() is between its exchange and its return.
NoStartInProgress ==
    \A t \in Clients : pc[t] \notin {"start_check", "start_spawn"}

\* What stop() could change: the flag, the thread set, the counters, the
\* queues, the strategy.
PipelineState ==
    <<isRunning_, workers_, joined, processor_, processorMutex_, totalProcessed_,
      totalErrors_, queue_, shutdown_, notFull_, notEmpty_, terminated>>

\* C7: submit is rejected whenever the pipeline is not running.  With no
\* strategy installed every start() is refused and the pipeline stays Stopped,
\* so no submit is past the running check and nothing was ever put on the
\* input queue.
C7_SubmitRejectedWhenStopped ==
    processor_ = "None" =>
        /\ \A t \in Clients : pc[t] \notin {"add_enqueue", "enq_wait"}
        /\ pushed["inputQueue_"] = <<>>

\* C8: start() with no strategy installed is a no-op: it spawns no worker and
\* the running flag is never true as a result of it.
C8_StartWithoutStrategyIsNoop ==
    processor_ = "None" => (~isRunning_ /\ workers_ = <<>>)

\* C9: start() on a Stopped pipeline with a strategy installed spawns exactly
\* numWorkers workers, and a start() that finds the pipeline running spawns
\* none: as long as no stop() has begun there are never more than numWorkers
\* workers, and exactly numWorkers live ones when the flag is set and no
\* start() is in progress.
C9_StartSpawnsOnce ==
    /\ [](StopNeverBegun =>
            /\ Len(workers_) <= numWorkers_
            /\ Cardinality(Live) = Len(workers_)
            /\ (isRunning_ /\ NoStartInProgress) =>
                   Cardinality(Live) = numWorkers_)
    /\ [][\A t \in Clients :
            /\ (pc[t] = "idle" /\ pc'[t] = "start_check") => ~isRunning_
            /\ (pc[t] = "idle" /\ pc'[t] = "start_warn") =>
                   (isRunning_ /\ workers_' = workers_)
            /\ (pc[t] = "start_warn" /\ pc'[t] \notin {"start_warn", "aborted"}) =>
                   (pc'[t] = "idle" /\ workers_' = workers_)]_vars

\* C9 witness: one start() has spawned the numWorkers workers and every
\* caller is in a further start() that found the pipeline running.
C9_Witness ==
    /\ StopNeverBegun
    /\ \A t \in Clients : pc[t] = "start_warn"
    /\ Len(workers_) = numWorkers_
    /\ Cardinality(Live) = numWorkers_

\* C10: a stop() that finds the pipeline not running (after a completed
\* stop(), or never started) returns and changes no pipeline state; stop()
\* goes on to shut down only a pipeline it found running.  (The step of
\* another thread that ends the process is not a step of this stop().)
C10_StopIdempotent ==
    [][\A t \in Clients :
          /\ (pc[t] = "idle" /\ pc'[t] = "stop_shutdown") => isRunning_
          /\ (pc[t] = "idle" /\ pc'[t] = "stop_ret") =>
                 (~isRunning_ /\ UNCHANGED PipelineState)
          /\ (pc[t] = "stop_ret" /\ pc'[t] \notin {"stop_ret", "aborted"}) =>
                 (pc'[t] = "idle" /\ UNCHANGED PipelineState)]_vars

\* C10 witness: after a completed stop() (input queue shut down, thread set
\* empty, nobody else active) a second stop() has found the flag false.
C10_Witness ==
    /\ shutdown_["inputQueue_"]
    /\ workers_ = <<>>
    /\ \E t \in Clients :
           /\ pc[t] = "stop_ret"
           /\ \A u \in Clients \ {t} : pc[u] = "idle"

\* C11: a stop() that found the pipeline running returns, with the thread set
\* empty: every worker has left its loop and has been joined.
C11_StopTerminates ==
    \A t \in Clients :
        (pc[t] = "stop_shutdown") ~> (pc[t] = "idle" /\ workers_ = <<>>)

\* No start() and no stop() call is in progress.
QuietLifecycle ==
    \A t \in Clients :
        /\ pc[t] \notin {"start_warn", "start_check", "start_spawn", "stop_ret",
                         "stop_shutdown", "stop_join", "stop_clear"}
        /\ cont[t] # "stop_join"

\* C12: the pipeline is restartable.  Whenever it is marked running and no
\* start() or stop() is in progress (after any number of completed cycles), a
\* submit that finds space in the input queue puts its item there and returns
\* true.
C12_Restartable ==
    [][\A t \in Clients :
          (/\ pc[t] = "add_enqueue" /\ pc'[t] # "add_enqueue"
           /\ isRunning_ /\ QuietLifecycle
           /\ Len(queue_["inputQueue_"]) < maxSize_["inputQueue_"]) =>
              /\ pc'[t] = "idle"
              /\ pushed'["inputQueue_"] = Append(pushed["inputQueue_"], item[t])]_vars

\* The workers that hold processorMutex_: from the lock_guard to the end of
\* the try block, with the strategy call and the enqueue of its result.
InStrategy ==
    {w \in Workers : \/ pc[w] \in {"w_process", "w_enqueued"}
                     \/ pc[w] = "enq_wait" /\ cont[w] = "w_enqueued"}

C14_AtMostOnce ==
    /\ [](Len(pushed["outputQueue_"]) <= Len(popped["inputQueue_"]))
    /\ [][\A w \in Workers :
            (pc[w] = "w_enqueued" /\ ~result[w].ok /\ pc'[w] # "w_enqueued") =>
                /\ totalErrors_' = totalErrors_ + 1
                /\ pc'[w] = "w_loop"
                /\ result'[w] = NoResult
                /\ UNCHANGED <<queue_, pushed, totalProcessed_>>]_vars

\* C14 witness: the output queue was full for the whole wait of a worker, and
\* the dropped result has been counted as an error.
C14_Witness ==
    /\ processor_ = "NumericProcessor"
    /\ Len(queue_["outputQueue_"]) = maxSize_["outputQueue_"]
    /\ Len(popped["inputQueue_"]) = 2
    /\ Len(pushed["outputQueue_"]) = 1
    /\ totalErrors_ = 1
    /\ InStrategy = {}
    /\ \A w \in Workers : pc[w] # "w_lock"

\* C15: no two workers are inside the strategy at the same time, and the one
\* that is owns processorMutex_.
C15_StrategyExclusive ==
    /\ Cardinality(InStrategy) <= 1
    /\ \A w \in InStrategy : processorMutex_ = w

\* C15 witness: one worker is about to call the strategy while another one,
\* holding an item, waits for the lock.
C15_Witness ==
    \E w, v \in Workers :
        /\ pc[w] = "w_process"
        /\ pc[v] = "w_lock"

\* C16: the strategy is never replaced while a worker is inside it, and what
\* a worker hands to the output queue is the item transformed by the strategy
\* installed at that moment, the last one setProcessor installed; after that
\* the worker keeps nothing of the item.
C16_SetStrategyWhileRunning ==
    [][/\ InStrategy # {} => processor_' = processor_
       /\ \A w \in Workers :
            /\ (pc[w] = "w_process" /\ pc'[w] = "enq_wait") =>
                   item'[w] = Process(processor_, result[w].val)
            /\ (pc[w] = "w_process" /\ pc'[w] = "w_enqueued") =>
                   pushed'["outputQueue_"] =
                       Append(pushed["outputQueue_"],
                              Process(processor_, result[w].val))
            /\ (pc[w] \in {"w_enqueued", "w_catch"} /\ pc'[w] = "w_loop") =>
                   result'[w] = NoResult]_vars

\* C16 witness: the first item was transformed by the multiplying strategy,
\* the strategy was then replaced while the pipeline was running, and a
\* worker is about to transform the second item with the new one.
C16_Witness ==
    /\ isRunning_
    /\ pushed["outputQueue_"] = <<Multiplier>>
    /\ processor_ = "ThrowingProcessor"
    /\ \E w \in Workers : pc[w] = "w_process" /\ result[w].val = 2

\* The sequence s as a multiset: how many times each element occurs.
BagOf(s) ==
    [x \in {s[i] : i \in 1 .. Len(s)} |->
        Cardinality({i \in 1 .. Len(s) : s[i] = x})]

\* What the stateless strategy p makes of each item of s.
Transformed(p, s) == [i \in 1 .. Len(s) |-> Process(p, s[i])]

\* The workers that hold an item taken from the input queue.
InFlight ==
    {w \in Workers : pc[w] = "w_lock"} \cup InStrategy

\* C17: with one worker, a stateless strategy and queues that hold every
\* item, the results put on the output queue are the transforms of the items
\* taken from the input queue, one for one; once the input queue is drained
\* and the worker holds nothing, they are, as a multiset, the transforms of
\* all the accepted items.
C17_NoLossNoDuplication ==
    processor_ = "NumericProcessor" =>
        /\ Len(pushed["outputQueue_"]) <= Len(popped["inputQueue_"])
        /\ pushed["outputQueue_"] =
               Transformed(processor_, SubSeq(popped["inputQueue_"], 1,
                                             Len(pushed["outputQueue_"])))
        /\ (queue_["inputQueue_"] = <<>> /\ InFlight = {}) =>
               BagOf(pushed["outputQueue_"]) =
                   BagOf(Transformed(processor_, pushed["inputQueue_"]))

\* C17 witness: FlowItems items were accepted, the input queue is drained and
\* all the results are on the output queue.
C17_Witness ==
    /\ processor_ = "NumericProcessor"
    /\ Len(pushed["inputQueue_"]) = FlowItems
    /\ queue_["inputQueue_"] = <<>> /\ InFlight = {}
    /\ Len(queue_["outputQueue_"]) = FlowItems

RECURSIVE Sum(_)
Sum(s) == IF s = <<>> THEN 0 ELSE Head(s) + Sum(Tail(s))

\* The cumulative means of s, each computed by integer division as
\* StatisticalProcessor<int> does.
RunningAverage(s) == [k \in 1 .. Len(s) |-> Sum(SubSeq(s, 1, k)) \div k]

\* C19: with one worker and a fresh running-average strategy, the results put
\* on the output queue are, in order, the cumulative means of the items taken
\* from the input queue, divided on the item type ({10, 20, 30} gives
\* {10, 15, 20}); the accumulator holds the sum and the count of the items
\* transformed, and only a strategy call changes it.
C19_RunningAverage ==
    /\ [](/\ RunningAverage(<<10, 20, 30>>) = <<10, 15, 20>>
          /\ processor_ = "StatisticalProcessor" =>
                /\ count_ = Len(pushed["outputQueue_"])
                /\ count_ <= Len(popped["inputQueue_"])
                /\ total_ = Sum(SubSeq(popped["inputQueue_"], 1, count_))
                /\ pushed["outputQueue_"] =
                       RunningAverage(SubSeq(popped["inputQueue_"], 1, count_)))
    /\ [][<<total_, count_>>' # <<total_, count_>> =>
             \E w \in Workers : pc[w] = "w_process" /\ pc'[w] # "w_process"]_vars

\* C19 witness: the items 1, 2, 3 went through the running average, the
\* pipeline was stopped, and the results 1, 1 (3 / 2), 2 are on the output
\* queue.
C19_Witness ==
    /\ processor_ = "StatisticalProcessor"
    /\ queue_["outputQueue_"] = <<1, 1, 2>>
    /\ ~isRunning_
    /\ workers_ = <<>>

\* C18: the Statistics a getStatistics call returns is the six fields as
\* they were together in one state the pipeline went through between the
\* call and its return.
C18_ConsistentSnapshot ==
    [][\A t \in Clients :
          (pc[t] = "stat_read" /\ pc'[t] = "idle") =>
              Append(snapshot[t], processor_) \in candidates[t]]_vars

\* C20: no consumer stays blocked in dequeue for ever while the queue holds
\* an item, and no producer stays blocked in enqueue for ever while the queue
\* has a free slot and is not shut down, whatever the other threads do and
\* whether or not the waiter has a timeout.
C20_NoLostWakeup ==
    \A t \in Callers :
        /\ (pc[t] = "deq_wait" /\ queue_[Q] # <<>>)
               ~> (pc[t] # "deq_wait" \/ queue_[Q] = <<>>)
        /\ (pc[t] = "enq_wait" /\ Len(queue_[Q]) < maxSize_[Q] /\ ~shutdown_[Q])
               ~> (\/ pc[t] # "enq_wait"
                   \/ Len(queue_[Q]) = maxSize_[Q]
                   \/ shutdown_[Q])

\* C20 witness: two consumers with no timeout blocked on the empty queue, one
\* item enqueued since; the notification went to one of them and the other is
\* still blocked while the queue holds the item.
C20_Witness ==
    \E a, b \in Callers :
        /\ a # b
        /\ pc[a] = "deq_wait" /\ pc[b] = "deq_wait"
        /\ timeoutMs[a] <= 0 /\ timeoutMs[b] <= 0
        /\ a \notin notEmpty_[Q] /\ b \in notEmpty_[Q]
        /\ queue_[Q] # <<>>
        /\ ~shutdown_[Q]

\* C21: a result is put on the output queue by the worker that holds
\* processorMutex_ at that moment, and it is the transform of the item that
\* worker took; so with several workers the results come out in the order in
\* which the workers entered the strategy, not in the order in which the
\* items were accepted (the witness is such an execution).
C21_OutputOrderIsLockOrder ==
    [][pushed'["outputQueue_"] # pushed["outputQueue_"] =>
          \E w \in Workers :
              /\ processorMutex_ = w
              /\ \/ /\ pc[w] = "w_process"
                    /\ pushed'["outputQueue_"] =
                           Append(pushed["outputQueue_"],
                                  Process(processor_, result[w].val))
                 \/ /\ pc[w] = "enq_wait" /\ cq[w] = "outputQueue_"
                    /\ pushed'["outputQueue_"] =
                           Append(pushed["outputQueue_"], item[w])]_vars

\* C21 witness: the items 1 then 2 were accepted in that order, two workers
\* hold one each, and the result of 2 was put on the output queue before the
\* result of 1.
C21_Witness ==
    /\ numWorkers_ >= 2
    /\ pushed["inputQueue_"] = <<1, 2>>
    /\ pushed["outputQueue_"] =
           <<Process("NumericProcessor", 2), Process("NumericProcessor", 1)>>

\* C22: when a stop() that stopped the pipeline returns, the input queue is
\* empty and every item the input queue accepted has been dequeued by a
\* worker.
C22_NoItemStranded ==
    [][\A t \in Clients :
          (pc[t] = "stop_clear" /\ pc'[t] = "idle") =>
              /\ queue_'["inputQueue_"] = <<>>
              /\ popped'["inputQueue_"] = pushed'["inputQueue_"]]_vars

\* Worker w has taken an item from the input queue and has not yet counted it.
HoldsItem(w) ==
    \/ pc[w] \in {"w_lock", "w_process", "w_catch", "w_enqueued"}
    \/ pc[w] = "enq_wait" /\ cq[w] = "outputQueue_"

\* The items currently held by workers.
Held == Cardinality({w \in Workers : HoldsItem(w)})

\* The workers whose result is on the output queue and not yet counted.
Uncounted == Cardinality({w \in Workers : pc[w] = "w_enqueued" /\ result[w].ok})

\* The items accepted are in the input queue, held by a worker, or counted.
AcceptedAccounted ==
    Len(pushed["inputQueue_"]) =
        Len(queue_["inputQueue_"]) + Held + totalProcessed_ + totalErrors_

\* C23 as stated: in every state the accepted items are accounted for and
\* totalProcessed equals the output depth plus the results retrieved.
C23_AccountingInEveryState ==
    /\ AcceptedAccounted
    /\ totalProcessed_ =
           Len(queue_["outputQueue_"]) + Len(popped["outputQueue_"])

\* C23 amended: in every state the accepted items are accounted for, and
\* totalProcessed plus the results a worker has put on the output queue and
\* not yet counted equals the output depth plus the results retrieved; a
\* step changes the counters by taking one held item and adding one to one
\* counter, and no counter decreases.
C23_Accounting ==
    /\ [](/\ AcceptedAccounted
          /\ totalProcessed_ + Uncounted =
                 Len(queue_["outputQueue_"]) + Len(popped["outputQueue_"]))
    /\ [][<<totalProcessed_, totalErrors_>>' # <<totalProcessed_, totalErrors_>> =>
             /\ \/ /\ totalProcessed_' = totalProcessed_ + 1
                   /\ totalErrors_' = totalErrors_
                \/ /\ totalErrors_' = totalErrors_ + 1
                   /\ totalProcessed_' = totalProcessed_
             /\ \E w \in Workers :
                    /\ HoldsItem(w) /\ ~HoldsItem(w)'
                    /\ \A v \in Workers \ {w} : HoldsItem(v)' = HoldsItem(v)]_vars

\* C23 witness: one item was counted as an error, a result has been
\* retrieved, and a worker has put a result on the output queue that it has
\* not counted yet.
C23_Witness ==
    /\ totalErrors_ > 0
    /\ Len(popped["outputQueue_"]) > 0
    /\ Uncounted > 0

\* C24: whenever no start() or stop() call is in progress (and the process
\* is alive), the thread set holds exactly numWorkers live workers if the
\* pipeline is marked running, and is empty if it is not.
C24_WorkerSet ==
    (QuietLifecycle /\ ~terminated) =>
        IF isRunning_
        THEN /\ Len(workers_) = numWorkers_
             /\ Cardinality(Live) = numWorkers_
        ELSE workers_ = <<>>

\* Thread t is inside a stop() that found the pipeline running.
InStop(t) ==
    \/ pc[t] \in {"stop_shutdown", "stop_join", "stop_clear"}
    \/ cont[t] = "stop_join"

\* Thread t is inside getResults.
InBatch(t) ==
    \/ pc[t] \in {"batch_dequeue", "batch_got"}
    \/ cont[t] = "batch_got"

\* C25: stop() leaves the output side intact.  The output queue is never
\* shut down or cleared and no step of stop() changes it; what was put on it
\* and not yet retrieved is on it, in the order it was put, so retrievals
\* return the results in FIFO order, also those put there while stop() was
\* draining the input queue; a dequeue made by getResults hands it the oldest
\* result; getResults collects at most count items and, called with a
\* positive timeout, returns.
C25_OutputIntact ==
    /\ [](/\ ~shutdown_["outputQueue_"]
          /\ ~cleared["outputQueue_"]
          /\ pushed["outputQueue_"] =
                 popped["outputQueue_"] \o queue_["outputQueue_"]
          /\ \A t \in Clients : Len(results[t]) <= iter[t] /\ iter[t] <= count[t])
    /\ [][\A t \in Clients :
             /\ (InStop(t) /\ pc'[t] # pc[t]) =>
                    /\ queue_'["outputQueue_"] = queue_["outputQueue_"]
                    /\ notFull_'["outputQueue_"] = notFull_["outputQueue_"]
                    /\ notEmpty_'["outputQueue_"] = notEmpty_["outputQueue_"]
             /\ (pc[t] # "batch_got" /\ pc'[t] = "batch_got") =>
                    result'[t] =
                        IF queue_["outputQueue_"] = <<>>
                        THEN DeqResult(FALSE, 0)
                        ELSE DeqResult(TRUE, Head(queue_["outputQueue_"]))
             /\ (pc[t] = "batch_got" /\ pc'[t] # "batch_got") =>
                    results'[t] = IF result[t].ok
                                  THEN Append(results[t], result[t].val)
                                  ELSE results[t]]_vars
    /\ \A t \in Clients : InBatch(t) ~> (pc[t] = "idle")

\* C25 witness: stop() has returned, the worker is joined, getResults has
\* collected the oldest result and the output queue still holds a result that
\* was put there before stop() returned.
C25_Witness ==
    \E t \in Clients :
        /\ ~isRunning_ /\ shutdown_["inputQueue_"] /\ workers_ = <<>>
        /\ pc[Controller] = "idle"
        /\ InBatch(t)
        /\ pushed["outputQueue_"] # <<>>
        /\ results[t] = <<pushed["outputQueue_"][1]>>
        /\ queue_["outputQueue_"] # <<>>

====
